---- MODULE Spec2Model ----
(***************************************************************************)
(* Model of the CCS test oracle of the pronunciation trainer:              *)
(* ccs_test_framework.py (AppState, UserState, CCSInteractionState,        *)
(* CCSTestOracle).  Python objects are modelled by reference where the     *)
(* code shares and mutates them: interaction snapshots live in `heap`,     *)
(* UserState objects in `ustore`, and state_history / current_state hold   *)
(* references.                                                             *)
(***************************************************************************)
EXTENDS Integers, Sequences, FiniteSets, TLC

VARIABLES
    state_history,   \* CCSTestOracle.state_history: sequence of snapshot references
    current_state,   \* CCSTestOracle.current_state: a snapshot reference or NoneRef
    heap,            \* the CCSInteractionState objects, indexed by reference
    ustore,          \* the UserState objects, indexed by reference
    now,             \* the last value time.time() returned
    lastOp,          \* the last operation called, its arguments and whether it raised
    result,          \* what the last operation returned (a sequence; <<>> for nothing),
                     \* after its argument for a call made on a value the oracle does not hold
    other            \* a second CCSTestOracle instance of the process, when the host is
                     \* not calling it: its state_history and current_state

vars == <<state_history, current_state, heap, ustore, now, lastOp, result, other>>

\* ------------------------------------------------------------------ bounds

MaxHistory == 2      \* history entries explored (one more where a session is restarted)
MaxBugs == 2         \* bug records after which the tester reports no further mismatch
MaxTicks == 1        \* clock ticks explored
ClockStart == 1      \* the clock's first reading (time.time() is positive)
NIntents == 4        \* how many UserIntent members the port-matching inputs use
NCaps == 5           \* how many AppCapability members the port-matching inputs use
MaxPhrases == 3      \* longest phrase list of the AppStates and host sessions examined

\* ------------------------------------------------------------- vocabulary

None == <<>>
Some(x) == <<x>>
NoneRef == 0

PracticeMode == {"FREE_TEXT", "GUIDED_LIST", "GUIDED_EDIT"}

UIElement ==
    {"TEXT_INPUT_FREE", "TEXT_INPUT_EDIT", "AUDIO_RECORDER", "PHRASE_DISPLAY_BOLD",
     "RESULTS_PANEL", "AUDIO_PLAYER_TARGET_PRACTICE", "AUDIO_PLAYER_USER_LIVE",
     "AUDIO_PLAYER_TARGET_RESULTS", "AUDIO_PLAYER_USER_RESULTS",
     "AUDIO_PLAYER_RECOGNIZED_TTS", "AUDIO_PLAYER_PHONEME_CORRECT",
     "AUDIO_PLAYER_PHONEME_USER", "PHRASE_LIST_UPLOADER", "PREV_BUTTON", "NEXT_BUTTON",
     "JUMP_SELECTOR", "PROGRESS_BAR", "CHECK_BUTTON", "CLEAR_BUTTON", "EDIT_BUTTON",
     "BACK_TO_LIST_BUTTON", "CLEAR_LIST_BUTTON"}

\* The members of AppCapability, in declaration order.
AppCapabilitySeq ==
    <<"ACCEPT_TEXT_INPUT", "ACCEPT_AUDIO_RECORDING", "ACCEPT_FILE_UPLOAD",
      "ACCEPT_NAVIGATION_PREV", "ACCEPT_NAVIGATION_NEXT", "ACCEPT_JUMP_TO_PHRASE",
      "ACCEPT_MODE_TOGGLE", "ACCEPT_CLEAR_RECORDING", "ACCEPT_CLEAR_LIST",
      "PROVIDE_TARGET_AUDIO_PRACTICE", "PROVIDE_USER_AUDIO_LIVE",
      "PROVIDE_TARGET_AUDIO_RESULTS", "PROVIDE_USER_AUDIO_RESULTS",
      "PROVIDE_RECOGNIZED_AUDIO", "PROVIDE_PHONEME_AUDIO_CORRECT",
      "PROVIDE_PHONEME_AUDIO_USER", "PROVIDE_ANALYSIS_RESULTS">>

AppCapability == {AppCapabilitySeq[k] : k \in DOMAIN AppCapabilitySeq}

\* The members of UserIntent, in declaration order.
UserIntentSeq ==
    <<"WANT_ENTER_TEXT", "WANT_RECORD_AUDIO", "WANT_UPLOAD_FILE", "WANT_GO_PREVIOUS",
      "WANT_GO_NEXT", "WANT_JUMP_TO_PHRASE", "WANT_TOGGLE_MODE", "WANT_CLEAR_RECORDING",
      "WANT_CLEAR_LIST", "WANT_SEE_RESULTS", "WANT_HEAR_TARGET_PRACTICE",
      "WANT_HEAR_USER_LIVE", "WANT_HEAR_TARGET_RESULTS", "WANT_HEAR_USER_RESULTS",
      "WANT_HEAR_RECOGNIZED", "WANT_HEAR_PHONEME_CORRECT", "WANT_HEAR_PHONEME_USER">>

UserIntent == {UserIntentSeq[k] : k \in DOMAIN UserIntentSeq}

\* ---------------------------------------------------------------- AppState

\* AppState(...): the dataclass with its defaults, the given fields set.
AppState(mode, phrase_list, current_phrase_index) ==
    [mode |-> mode,
     current_text |-> Some(""),
     phrase_list |-> phrase_list,
     current_phrase_index |-> current_phrase_index,
     has_recording |-> FALSE,
     has_results |-> FALSE,
     displayed_phrase_text |-> None,
     current_score |-> None,
     recognized_text |-> None,
     settings |-> None,
     visible_elements |-> {},
     active_capabilities |-> {}]

\* A violation string: the message and the values formatted into it.
Violation(msg, index, size, displayed, expected) ==
    [msg |-> msg, index |-> index, size |-> size, displayed |-> displayed,
     expected |-> expected]

\* A test for None alone: the empty string counts as a text.
Truthy_NotNone(opt) == opt # None

\* Python truthiness of an Optional[str]: None and "" are false.
Truthy(opt) == opt # None /\ opt[1] # ""

\* list[i] of Python: defined for -len <= i < len, IndexError otherwise.
InIndexRange(list, i) == -Len(list) <= i /\ i < Len(list)
PyIndex(list, i) == IF i < 0 THEN list[Len(list) + i + 1] ELSE list[i + 1]

\* Invariant 1: results require a recording.
results_require_recording(self) ==
    IF self.has_results /\ ~self.has_recording
    THEN <<Violation("Results exist but no recording (impossible state)", 0, 0, "", "")>>
    ELSE <<>>

\* Invariant 2 reported in every mode.
guided_list_requires_phrases_AnyMode(self) ==
    IF Len(self.phrase_list) = 0
    THEN <<Violation("GUIDED_LIST mode but empty phrase list", 0, 0, "", "")>>
    ELSE <<>>

\* Invariant 2: guided modes require a phrase list.
guided_list_requires_phrases(self) ==
    IF self.mode = "GUIDED_LIST" /\ Len(self.phrase_list) = 0
    THEN <<Violation("GUIDED_LIST mode but empty phrase list", 0, 0, "", "")>>
    ELSE <<>>

\* Invariant 3: the phrase index is within bounds.
index_within_bounds(self) ==
    LET n == Len(self.phrase_list)
        i == self.current_phrase_index
    IN IF n > 0
       THEN IF i < 0
            THEN <<Violation("Negative phrase index", i, 0, "", "")>>
            ELSE IF i >= n
                 THEN <<Violation("Phrase index out of bounds", i, n, "", "")>>
                 ELSE <<>>
       ELSE <<>>

\* Invariant 4: a score is present when results exist.
results_have_score(self) ==
    IF self.has_results /\ self.current_score = None
    THEN <<Violation("Results exist but no score available", 0, 0, "", "")>>
    ELSE <<>>

\* Whether the block of invariant 5 is entered, and whether its subscript
\* phrase_list[current_phrase_index] raises IndexError.
displayed_is_checked(self) == self.mode = "GUIDED_LIST" /\ Len(self.phrase_list) > 0
subscript_raises(self) ==
    displayed_is_checked(self) /\ ~InIndexRange(self.phrase_list, self.current_phrase_index)

\* Invariant 5 with the displayed text compared to the first phrase of the
\* list, whatever the index.
displayed_matches_phrase_FirstPhrase(self) ==
    IF displayed_is_checked(self) /\ ~subscript_raises(self)
    THEN LET expected_phrase == PyIndex(self.phrase_list, 0)
         IN IF Truthy(self.displayed_phrase_text)
               /\ self.displayed_phrase_text[1] # expected_phrase
            THEN <<Violation("Displayed phrase doesn't match list phrase",
                             self.current_phrase_index, 0,
                             self.displayed_phrase_text[1], expected_phrase)>>
            ELSE <<>>
    ELSE <<>>

\* Invariant 5: the displayed phrase matches the list phrase, where the
\* subscript does not raise.
displayed_matches_phrase(self) ==
    IF displayed_is_checked(self) /\ ~subscript_raises(self)
    THEN LET expected_phrase == PyIndex(self.phrase_list, self.current_phrase_index)
         IN IF Truthy(self.displayed_phrase_text)
               /\ self.displayed_phrase_text[1] # expected_phrase
            THEN <<Violation("Displayed phrase doesn't match list phrase",
                             self.current_phrase_index, 0,
                             self.displayed_phrase_text[1], expected_phrase)>>
            ELSE <<>>
    ELSE <<>>

\* AppState.check_invariants: the list of violations, or raised when the
\* subscript phrase_list[current_phrase_index] raises IndexError.
check_invariants(self) ==
    [raised |-> subscript_raises(self),
     violations |-> IF subscript_raises(self)
                    THEN <<>>
                    ELSE results_require_recording(self)
                             \o guided_list_requires_phrases(self)
                             \o index_within_bounds(self)
                             \o results_have_score(self)
                             \o displayed_matches_phrase(self)]

\* --------------------------------------------------------------- UserState

UserState(active_intents, expected_visible, perception_matches) ==
    [active_intents |-> active_intents,
     expected_visible |-> expected_visible,
     perception_matches |-> perception_matches,
     perception_notes |-> ""]

\* ----------------------------------------------------- CCSInteractionState

\* CCSInteractionState(...): the dataclass with its defaults; user_state is
\* a reference into ustore.
CCSInteractionState(app_state, user_state, test_step, timestamp, time_since_last) ==
    [app_state |-> app_state,
     user_state |-> user_state,
     satisfied_interactions |-> {},
     unsatisfied_user_intents |-> {},
     unused_app_capabilities |-> {},
     test_step |-> test_step,
     bugs_found |-> <<>>,
     timestamp |-> timestamp,
     time_since_last_transition |-> time_since_last]

\* The complementary port pairs (user intent -> app capability).
port_pairs ==
    ("WANT_ENTER_TEXT" :> "ACCEPT_TEXT_INPUT") @@
    ("WANT_RECORD_AUDIO" :> "ACCEPT_AUDIO_RECORDING") @@
    ("WANT_UPLOAD_FILE" :> "ACCEPT_FILE_UPLOAD") @@
    ("WANT_GO_PREVIOUS" :> "ACCEPT_NAVIGATION_PREV") @@
    ("WANT_GO_NEXT" :> "ACCEPT_NAVIGATION_NEXT") @@
    ("WANT_JUMP_TO_PHRASE" :> "ACCEPT_JUMP_TO_PHRASE") @@
    ("WANT_TOGGLE_MODE" :> "ACCEPT_MODE_TOGGLE") @@
    ("WANT_CLEAR_RECORDING" :> "ACCEPT_CLEAR_RECORDING") @@
    ("WANT_CLEAR_LIST" :> "ACCEPT_CLEAR_LIST") @@
    ("WANT_SEE_RESULTS" :> "PROVIDE_ANALYSIS_RESULTS") @@
    ("WANT_HEAR_TARGET_PRACTICE" :> "PROVIDE_TARGET_AUDIO_PRACTICE") @@
    ("WANT_HEAR_USER_LIVE" :> "PROVIDE_USER_AUDIO_LIVE") @@
    ("WANT_HEAR_TARGET_RESULTS" :> "PROVIDE_TARGET_AUDIO_RESULTS") @@
    ("WANT_HEAR_USER_RESULTS" :> "PROVIDE_USER_AUDIO_RESULTS") @@
    ("WANT_HEAR_RECOGNIZED" :> "PROVIDE_RECOGNIZED_AUDIO") @@
    ("WANT_HEAR_PHONEME_CORRECT" :> "PROVIDE_PHONEME_AUDIO_CORRECT") @@
    ("WANT_HEAR_PHONEME_USER" :> "PROVIDE_PHONEME_AUDIO_USER")

\* port_pairs.get for a table that lacks the entry of WANT_HEAR_PHONEME_USER.
port_pairs_get_WithoutLast(user_intent) ==
    IF user_intent \in DOMAIN port_pairs \ {"WANT_HEAR_PHONEME_USER"}
    THEN Some(port_pairs[user_intent])
    ELSE None

\* port_pairs.get(user_intent): None for an intent the table does not hold.
port_pairs_get(user_intent) ==
    IF user_intent \in DOMAIN port_pairs THEN Some(port_pairs[user_intent]) ELSE None

\* match_intent without the test that the partner capability is active.
match_intent_IgnoresCaps(self, user_intent, active_capabilities) ==
    LET corresponding_capability == port_pairs_get(user_intent)
    IN IF corresponding_capability # None
       THEN [self EXCEPT !.satisfied_interactions =
                              @ \cup {<<user_intent, corresponding_capability[1]>>}]
       ELSE [self EXCEPT !.unsatisfied_user_intents = @ \cup {user_intent}]

\* One iteration of the matching loop: the intent is satisfied when its
\* partner is an active capability, unsatisfied otherwise.
match_intent(self, user_intent, active_capabilities) ==
    LET corresponding_capability == port_pairs_get(user_intent)
    IN IF corresponding_capability # None
          /\ corresponding_capability[1] \in active_capabilities
       THEN [self EXCEPT !.satisfied_interactions =
                              @ \cup {<<user_intent, corresponding_capability[1]>>}]
       ELSE [self EXCEPT !.unsatisfied_user_intents = @ \cup {user_intent}]

\* The loop over user_state.active_intents (a set: any iteration order).
RECURSIVE match_intents(_, _, _)
match_intents(self, todo, active_capabilities) ==
    IF todo = {}
    THEN self
    ELSE LET user_intent == CHOOSE x \in todo : TRUE
         IN match_intents(match_intent(self, user_intent, active_capabilities),
                          todo \ {user_intent}, active_capabilities)

\* used_capabilities taking the first component of each pair.
used_capabilities_FirstOfPair(self) == {p[1] : p \in self.satisfied_interactions}

\* used_capabilities = {cap for _, cap in self.satisfied_interactions}
used_capabilities(self) == {p[2] : p \in self.satisfied_interactions}

\* compute_port_matching with used_capabilities read before the sets are
\* cleared and the loop has run (a statement-order slip).
compute_port_matching_StaleUsed(self, user_state) ==
    LET used == used_capabilities(self)
        cleared == [self EXCEPT !.satisfied_interactions = {},
                                 !.unsatisfied_user_intents = {},
                                 !.unused_app_capabilities = {}]
        matched == match_intents(cleared, user_state.active_intents,
                                 self.app_state.active_capabilities)
    IN [matched EXCEPT !.unused_app_capabilities =
                           self.app_state.active_capabilities \ used]

\* CCSInteractionState.compute_port_matching: the snapshot after the call;
\* user_state is the UserState object the snapshot refers to.
compute_port_matching(self, user_state) ==
    LET cleared == [self EXCEPT !.satisfied_interactions = {},
                                 !.unsatisfied_user_intents = {},
                                 !.unused_app_capabilities = {}]
        matched == match_intents(cleared, user_state.active_intents,
                                 self.app_state.active_capabilities)
    IN [matched EXCEPT !.unused_app_capabilities =
                           self.app_state.active_capabilities \ used_capabilities(matched)]

\* ui_bug_report with the expected and the actual elements exchanged.
ui_bug_report_Swapped(self, user_state) ==
    [step |-> self.test_step,
     type |-> "UI_INCONSISTENCY",
     expected_visible |-> self.app_state.visible_elements,
     actual_visible |-> user_state.expected_visible,
     notes |-> user_state.perception_notes]

\* The bug report check_ui_consistency builds for a mismatch.
ui_bug_report(self, user_state) ==
    [step |-> self.test_step,
     type |-> "UI_INCONSISTENCY",
     expected_visible |-> user_state.expected_visible,
     actual_visible |-> self.app_state.visible_elements,
     notes |-> user_state.perception_notes]

\* check_ui_consistency that empties the bug list when the verdict is a
\* match.
check_ui_consistency_ClearOnMatch(self, user_state) ==
    IF user_state.perception_matches = None
    THEN [ret |-> FALSE, self |-> self]
    ELSE IF ~user_state.perception_matches[1]
         THEN [ret |-> FALSE,
               self |-> [self EXCEPT !.bugs_found =
                                         Append(@, [step |-> self.test_step,
                                                    type |-> "UI_INCONSISTENCY",
                                                    expected_visible |-> user_state.expected_visible,
                                                    actual_visible |-> self.app_state.visible_elements,
                                                    notes |-> user_state.perception_notes])]]
         ELSE [ret |-> TRUE, self |-> [self EXCEPT !.bugs_found = <<>>]]

\* CCSInteractionState.check_ui_consistency: the returned boolean and the
\* snapshot after the call.
check_ui_consistency(self, user_state) ==
    IF user_state.perception_matches = None
    THEN [ret |-> FALSE, self |-> self]
    ELSE IF ~user_state.perception_matches[1]
         THEN [ret |-> FALSE,
               self |-> [self EXCEPT !.bugs_found =
                                         Append(@, ui_bug_report(self, user_state))]]
         ELSE [ret |-> TRUE, self |-> self]

\* AppState.to_dict
app_to_dict(self) ==
    [mode |-> self.mode,
     current_text |-> self.current_text,
     phrase_list_size |-> Len(self.phrase_list),
     current_phrase_index |-> self.current_phrase_index,
     has_recording |-> self.has_recording,
     has_results |-> self.has_results,
     displayed_phrase_text |-> self.displayed_phrase_text,
     current_score |-> self.current_score,
     recognized_text |-> self.recognized_text,
     settings |-> self.settings,
     visible_elements |-> self.visible_elements,
     active_capabilities |-> self.active_capabilities]

\* UserState.to_dict
user_to_dict(self) ==
    [active_intents |-> self.active_intents,
     expected_visible |-> self.expected_visible,
     perception_matches |-> self.perception_matches,
     perception_notes |-> self.perception_notes]

\* CCSInteractionState.to_dict: the dictionary, or raised when
\* check_invariants raises.
to_dict(self, user_state) ==
    LET inv == check_invariants(self.app_state)
    IN [raised |-> inv.raised,
        dict |-> [test_step |-> self.test_step,
                  timestamp |-> self.timestamp,
                  time_since_last_transition |-> self.time_since_last_transition,
                  app_state |-> app_to_dict(self.app_state),
                  user_state |-> user_to_dict(user_state),
                  satisfied_interactions |-> self.satisfied_interactions,
                  unsatisfied_user_intents |-> self.unsatisfied_user_intents,
                  unused_app_capabilities |-> self.unused_app_capabilities,
                  bugs_found_count |-> Len(self.bugs_found),
                  invariant_violations |-> inv.violations]]

\* ------------------------------------------------------------ CCSTestOracle

\* The snapshot objects state_history refers to, in history order.
Entries == {state_history[k] : k \in DOMAIN state_history}

\* An append that starts the history over.
history_append_Reset(history, state) == <<state>>

\* self.state_history.append(state)
history_append(history, state) == Append(history, state)

RECURSIVE collect_bugs(_, _)
collect_bugs(history, objects) ==
    IF history = <<>>
    THEN <<>>
    ELSE objects[Head(history)].bugs_found \o collect_bugs(Tail(history), objects)

\* CCSTestOracle.get_bugs: the bug lists of the history entries, concatenated.
get_bugs == collect_bugs(state_history, heap)

\* The record of the last call.
Op(op, raised, matches, notes, target) ==
    [op |-> op, raised |-> raised, matches |-> matches, notes |-> notes,
     target |-> target]

\* initialize_state that appends the snapshot without making it the
\* current state.
initialize_state_KeepsCurrent(mode) ==
    LET user_state == Len(ustore) + 1
        ref == Len(heap) + 1
        state == CCSInteractionState(AppState(mode, <<>>, 0), user_state, 0, 0, 0)
    IN /\ ustore' = Append(ustore, UserState({}, {}, None))
       /\ heap' = Append(heap, state)
       /\ current_state' = current_state
       /\ state_history' = history_append(state_history, ref)
       /\ lastOp' = Op("initialize_state", FALSE, FALSE, "", ref)
       /\ result' = <<ref>>
       /\ UNCHANGED <<now, other>>

\* initialize_state with one UserState object shared by every call (a
\* default built once for the process).
initialize_state_SharedDefault(mode) ==
    LET user_state == 1
        ref == Len(heap) + 1
        state == CCSInteractionState(AppState(mode, <<>>, 0), user_state, 0, 0, 0)
    IN /\ ustore' = IF ustore = <<>> THEN <<UserState({}, {}, None)>> ELSE ustore
       /\ heap' = Append(heap, state)
       /\ current_state' = ref
       /\ state_history' = history_append(state_history, ref)
       /\ lastOp' = Op("initialize_state", FALSE, FALSE, "", ref)
       /\ result' = <<ref>>
       /\ UNCHANGED <<now, other>>

\* CCSTestOracle.initialize_state(mode)
initialize_state(mode) ==
    LET user_state == Len(ustore) + 1
        ref == Len(heap) + 1
        state == CCSInteractionState(AppState(mode, <<>>, 0), user_state, 0, 0, 0)
    IN /\ ustore' = Append(ustore, UserState({}, {}, None))
       /\ heap' = Append(heap, state)
       /\ current_state' = ref
       /\ state_history' = history_append(state_history, ref)
       /\ lastOp' = Op("initialize_state", FALSE, FALSE, "", ref)
       /\ result' = <<ref>>
       /\ UNCHANGED <<now, other>>

\* The bug report transition builds for a non-empty violation list.
invariant_bug_report(state, violations) ==
    [step |-> state.test_step,
     type |-> "INVARIANT_VIOLATION",
     violations |-> violations,
     notes |-> "Automated invariant check"]

\* transition_state that also runs check_ui_consistency on the new
\* snapshot.
transition_state_ChecksUi(new_app_state, user_state_ref, user_state, current_time) ==
    LET time_since_last ==
            IF current_state # NoneRef
            THEN current_time - heap[current_state].timestamp
            ELSE 0
        state == compute_port_matching(
                     CCSInteractionState(new_app_state, user_state_ref,
                                         Len(state_history), current_time,
                                         time_since_last),
                     user_state)
        violations == check_invariants(new_app_state).violations
        logged == IF violations # <<>>
                  THEN [state EXCEPT !.bugs_found =
                                         Append(@, invariant_bug_report(state, violations))]
                  ELSE state
    IN check_ui_consistency(logged, user_state).self

\* transition_state that advances the step number only when the clock has
\* advanced since the prior entry.
transition_state_StepFromClock(new_app_state, user_state_ref, user_state, current_time) ==
    LET time_since_last ==
            IF current_state # NoneRef
            THEN current_time - heap[current_state].timestamp
            ELSE 0
        test_step == IF current_state # NoneRef /\ time_since_last = 0
                     THEN heap[current_state].test_step
                     ELSE Len(state_history)
        state == compute_port_matching(
                     CCSInteractionState(new_app_state, user_state_ref,
                                         test_step, current_time, time_since_last),
                     user_state)
        violations == check_invariants(new_app_state).violations
    IN IF violations # <<>>
       THEN [state EXCEPT !.bugs_found =
                              Append(@, invariant_bug_report(state, violations))]
       ELSE state

\* The snapshot transition builds: constructed, ports matched, and the
\* automatic bug appended when check_invariants reports violations.
transition_state(new_app_state, user_state_ref, user_state, current_time) ==
    LET time_since_last ==
            IF current_state # NoneRef
            THEN current_time - heap[current_state].timestamp
            ELSE 0
        state == compute_port_matching(
                     CCSInteractionState(new_app_state, user_state_ref,
                                         Len(state_history), current_time,
                                         time_since_last),
                     user_state)
        violations == check_invariants(new_app_state).violations
    IN IF violations # <<>>
       THEN [state EXCEPT !.bugs_found =
                              Append(@, invariant_bug_report(state, violations))]
       ELSE state

\* CCSTestOracle.transition(new_app_state, new_user_state): new_user_state
\* is the reference user_state_ref into the store users (the host's
\* objects); current_time is what time.time() returns.
transition(new_app_state, user_state_ref, users, current_time) ==
    LET ref == Len(heap) + 1
        state == transition_state(new_app_state, user_state_ref,
                                  users[user_state_ref], current_time)
    IN /\ now' = current_time
       /\ UNCHANGED other
       /\ IF check_invariants(new_app_state).raised
          THEN /\ lastOp' = Op("transition", TRUE, FALSE, "", NoneRef)
               /\ result' = <<>>
               /\ UNCHANGED <<state_history, current_state, heap, ustore>>
          ELSE /\ ustore' = users
               /\ heap' = Append(heap, state)
               /\ current_state' = ref
               /\ state_history' = history_append(state_history, ref)
               /\ lastOp' = Op("transition", FALSE, FALSE, "", ref)
               /\ result' = <<ref>>

\* user_validation without the test that there is a current state: the
\* attribute access on None raises.
user_validation_Unguarded(matches, notes) ==
    /\ IF current_state # NoneRef
       THEN LET uref == heap[current_state].user_state
                users == [ustore EXCEPT ![uref].perception_matches = Some(matches),
                                        ![uref].perception_notes = notes]
            IN /\ ustore' = users
               /\ heap' = [heap EXCEPT ![current_state] =
                               check_ui_consistency(@, users[uref]).self]
       ELSE UNCHANGED <<heap, ustore>>
    /\ lastOp' = Op("user_validation", current_state = NoneRef, matches, notes, current_state)
    /\ result' = <<>>
    /\ UNCHANGED <<state_history, current_state, now, other>>

\* CCSTestOracle.user_validation(matches, notes)
user_validation(matches, notes) ==
    /\ IF current_state # NoneRef
       THEN LET uref == heap[current_state].user_state
                users == [ustore EXCEPT ![uref].perception_matches = Some(matches),
                                        ![uref].perception_notes = notes]
            IN /\ ustore' = users
               /\ heap' = [heap EXCEPT ![current_state] =
                               check_ui_consistency(@, users[uref]).self]
       ELSE UNCHANGED <<heap, ustore>>
    /\ lastOp' = Op("user_validation", FALSE, matches, notes, current_state)
    /\ result' = <<>>
    /\ UNCHANGED <<state_history, current_state, now, other>>

\* The document with the snapshot of the current state alone.
session_data_CurrentOnly ==
    LET dicts == [k \in {j \in DOMAIN state_history : j = Len(state_history)} |->
                     to_dict(heap[current_state], ustore[heap[current_state].user_state])]
    IN [raised |-> \E k \in DOMAIN dicts : dicts[k].raised,
        data |-> [test_config |-> None,
                  total_steps |-> Len(state_history),
                  bugs_found |-> get_bugs,
                  state_history |-> IF state_history = <<>>
                                    THEN <<>>
                                    ELSE <<dicts[Len(state_history)].dict>>]]

\* The document save_test_session builds, or raised when a to_dict raises.
session_data ==
    LET dicts == [k \in DOMAIN state_history |->
                     to_dict(heap[state_history[k]],
                             ustore[heap[state_history[k]].user_state])]
    IN [raised |-> \E k \in DOMAIN dicts : dicts[k].raised,
        data |-> [test_config |-> None,
                  total_steps |-> Len(state_history),
                  bugs_found |-> get_bugs,
                  state_history |-> [k \in DOMAIN dicts |-> dicts[k].dict]]]

\* save_test_session that empties the history once the document is written.
save_test_session_Flushes(io_ok) ==
    /\ lastOp' = Op("save_test_session", session_data.raised \/ ~io_ok, FALSE, "", NoneRef)
    /\ result' = IF session_data.raised \/ ~io_ok THEN <<>> ELSE <<session_data.data>>
    /\ state_history' = IF session_data.raised \/ ~io_ok THEN state_history ELSE <<>>
    /\ UNCHANGED <<current_state, heap, ustore, now, other>>

\* CCSTestOracle.save_test_session(filename): io_ok is whether open() and
\* json.dump succeed.
save_test_session(io_ok) ==
    /\ lastOp' = Op("save_test_session", session_data.raised \/ ~io_ok, FALSE, "", NoneRef)
    /\ result' = IF session_data.raised \/ ~io_ok THEN <<>> ELSE <<session_data.data>>
    /\ UNCHANGED <<state_history, current_state, heap, ustore, now, other>>

\* --------------------------------------------------------------- the host

\* build_free_text_state()
build_free_text_state ==
    [AppState("FREE_TEXT", <<>>, 0) EXCEPT
        !.visible_elements = {"TEXT_INPUT_FREE", "PHRASE_LIST_UPLOADER"},
        !.active_capabilities = {"ACCEPT_TEXT_INPUT", "ACCEPT_FILE_UPLOAD"}]

\* build_guided_list_state(phrase_list, current_idx), for an index the
\* helper's own subscript accepts.
build_guided_list_state(phrase_list, current_idx) ==
    [AppState("GUIDED_LIST", phrase_list, current_idx) EXCEPT
        !.current_text = IF phrase_list # <<>>
                         THEN Some(PyIndex(phrase_list, current_idx))
                         ELSE None,
        !.visible_elements = {"PHRASE_DISPLAY_BOLD", "PREV_BUTTON", "NEXT_BUTTON",
                              "JUMP_SELECTOR", "EDIT_BUTTON", "PROGRESS_BAR",
                              "PHRASE_LIST_UPLOADER"},
        !.active_capabilities = {"ACCEPT_NAVIGATION_PREV", "ACCEPT_NAVIGATION_NEXT",
                                 "ACCEPT_JUMP_TO_PHRASE", "ACCEPT_MODE_TOGGLE",
                                 "ACCEPT_FILE_UPLOAD"}]

\* st.session_state: a key holds None when the session does not have it.
SessionState(phrase_list, current_phrase_index, edit_mode, last_result, practice_text_free, edit_phrase_input) ==
    [phrase_list |-> phrase_list,
     current_phrase_index |-> current_phrase_index,
     edit_mode |-> edit_mode,
     last_result |-> last_result,
     practice_text_free |-> practice_text_free,
     edit_phrase_input |-> edit_phrase_input]

\* st.session_state.get(key, default)
session_get(session, key, default) ==
    IF session[key] = None THEN default ELSE session[key][1]

\* dict.get(key, None) of a last_result dictionary
dict_get(dict, key) == IF key \in DOMAIN dict THEN Some(dict[key]) ELSE None

\* Python truthiness of the last_result entry: None and {} are false.
TruthyDict(opt) == opt # None /\ DOMAIN opt[1] # {}

\* CCSTestSession._infer_visible_elements
infer_visible_elements(app_state) ==
    {"PHRASE_LIST_UPLOADER"}
    \cup (CASE app_state.mode = "FREE_TEXT" -> {"TEXT_INPUT_FREE"}
            [] app_state.mode = "GUIDED_LIST" ->
                   {"PHRASE_DISPLAY_BOLD", "PREV_BUTTON", "NEXT_BUTTON", "JUMP_SELECTOR",
                    "PROGRESS_BAR", "EDIT_BUTTON", "CLEAR_LIST_BUTTON", "TEXT_INPUT_FREE",
                    "AUDIO_RECORDER"}
            [] app_state.mode = "GUIDED_EDIT" ->
                   {"TEXT_INPUT_EDIT", "BACK_TO_LIST_BUTTON", "PREV_BUTTON", "NEXT_BUTTON",
                    "JUMP_SELECTOR", "PROGRESS_BAR"})
    \cup (IF Truthy(app_state.current_text)
          THEN {"AUDIO_PLAYER_TARGET_PRACTICE", "AUDIO_RECORDER"}
          ELSE {})
    \cup (IF app_state.has_recording
          THEN {"AUDIO_PLAYER_USER_LIVE", "CHECK_BUTTON", "CLEAR_BUTTON"}
          ELSE {})
    \cup (IF app_state.has_results
          THEN {"RESULTS_PANEL", "AUDIO_PLAYER_TARGET_RESULTS",
                "AUDIO_PLAYER_USER_RESULTS", "AUDIO_PLAYER_RECOGNIZED_TTS"}
          ELSE {})

\* CCSTestSession._infer_capabilities
infer_capabilities(app_state) ==
    {"ACCEPT_FILE_UPLOAD"}
    \cup (CASE app_state.mode = "FREE_TEXT" -> {"ACCEPT_TEXT_INPUT"}
            [] app_state.mode = "GUIDED_LIST" ->
                   {"ACCEPT_NAVIGATION_PREV", "ACCEPT_NAVIGATION_NEXT", "ACCEPT_MODE_TOGGLE",
                    "ACCEPT_CLEAR_LIST", "ACCEPT_TEXT_INPUT", "ACCEPT_AUDIO_RECORDING"}
                   \cup (IF Len(app_state.phrase_list) > 1
                         THEN {"ACCEPT_JUMP_TO_PHRASE"}
                         ELSE {})
            [] app_state.mode = "GUIDED_EDIT" -> {"ACCEPT_TEXT_INPUT", "ACCEPT_MODE_TOGGLE"})
    \cup (IF Truthy(app_state.current_text)
          THEN {"PROVIDE_TARGET_AUDIO_PRACTICE", "ACCEPT_AUDIO_RECORDING"}
          ELSE {})
    \cup (IF app_state.has_recording
          THEN {"PROVIDE_USER_AUDIO_LIVE", "ACCEPT_CLEAR_RECORDING"}
          ELSE {})
    \cup (IF app_state.has_results
          THEN {"PROVIDE_ANALYSIS_RESULTS", "PROVIDE_TARGET_AUDIO_RESULTS",
                "PROVIDE_USER_AUDIO_RESULTS", "PROVIDE_RECOGNIZED_AUDIO",
                "PROVIDE_PHONEME_AUDIO_CORRECT", "PROVIDE_PHONEME_AUDIO_USER"}
          ELSE {})

\* CCSTestSession.extract_app_state_from_streamlit, reading session.
extract_app_state_from_streamlit(session) ==
    LET phrase_list == session_get(session, "phrase_list", <<>>)
        current_index == session_get(session, "current_phrase_index", 0)
        mode == IF phrase_list # <<>>
                THEN IF session_get(session, "edit_mode", FALSE)
                     THEN "GUIDED_EDIT"
                     ELSE "GUIDED_LIST"
                ELSE "FREE_TEXT"
        current_text ==
            CASE mode = "FREE_TEXT" -> session.practice_text_free
              [] mode = "GUIDED_EDIT" -> session.edit_phrase_input
              [] mode = "GUIDED_LIST" ->
                     IF phrase_list # <<>> /\ 0 <= current_index
                            /\ current_index < Len(phrase_list)
                     THEN Some(phrase_list[current_index + 1])
                     ELSE None
        last_result == session.last_result
        app_state ==
            [AppState(mode, phrase_list, current_index) EXCEPT
                 !.current_text = current_text,
                 !.has_recording = last_result # None,
                 !.has_results = last_result # None,
                 !.displayed_phrase_text = current_text,
                 !.current_score = IF TruthyDict(last_result)
                                   THEN dict_get(last_result[1], "similarity")
                                   ELSE None,
                 !.recognized_text = IF TruthyDict(last_result)
                                     THEN dict_get(last_result[1], "recognized")
                                     ELSE None]
        seen == [app_state EXCEPT !.visible_elements = infer_visible_elements(app_state)]
    IN [seen EXCEPT !.active_capabilities = infer_capabilities(seen)]

\* CCSTestSession.render_validation_ui when the tester clicks Matched
\* (matches) or Mismatched: nothing when testing is not enabled; otherwise
\* the AppState is extracted from the session, a UserState is built with the
\* verdict set, and transition and user_validation are called in turn.  A
\* transition that raises ends the handler.
render_validation_ui(enabled, session, matches, notes, current_time) ==
    LET app_state == extract_app_state_from_streamlit(session)
        user_state_ref == Len(ustore) + 1
        user_state == UserState({}, {}, Some(matches))
        ref == Len(heap) + 1
        state == transition_state(app_state, user_state_ref, user_state, current_time)
        validated == [user_state EXCEPT !.perception_matches = Some(matches),
                                        !.perception_notes = notes]
    IN /\ result' = <<enabled>>
       /\ UNCHANGED other
       /\ IF ~enabled
          THEN /\ lastOp' = Op("render_validation_ui", FALSE, matches, notes, NoneRef)
               /\ UNCHANGED <<state_history, current_state, heap, ustore, now>>
          ELSE /\ now' = current_time
               /\ IF check_invariants(app_state).raised
                  THEN /\ lastOp' = Op("render_validation_ui", TRUE, matches, notes, NoneRef)
                       /\ UNCHANGED <<state_history, current_state, heap, ustore>>
                  ELSE /\ ustore' = Append(ustore, validated)
                       /\ heap' = Append(heap, check_ui_consistency(state, validated).self)
                       /\ current_state' = ref
                       /\ state_history' = history_append(state_history, ref)
                       /\ lastOp' = Op("render_validation_ui", FALSE, matches, notes, ref)

\* The checkboxes of create_user_intent_selector (by key) and the UserIntent
\* attribute names each one adds when ticked.
selector_intents ==
    ("intent_text" :> {"WANT_ENTER_TEXT"}) @@
    ("intent_record" :> {"WANT_RECORD_AUDIO"}) @@
    ("intent_upload" :> {"WANT_UPLOAD_FILE"}) @@
    ("intent_nav" :> {"WANT_GO_PREVIOUS", "WANT_GO_NEXT"}) @@
    ("intent_jump" :> {"WANT_JUMP_TO_PHRASE"}) @@
    ("intent_mode" :> {"WANT_TOGGLE_MODE"}) @@
    ("intent_clear" :> {"WANT_CLEAR_RECORDING"}) @@
    ("intent_hear" :> {"WANT_HEAR_TARGET"}) @@
    ("intent_results" :> {"WANT_SEE_RESULTS"})

\* create_user_intent_selector() with the checkboxes of ticked ticked: the
\* set returned, or raised when an attribute named is not a member of
\* UserIntent (AttributeError).
create_user_intent_selector(ticked) ==
    LET names == UNION {selector_intents[c] : c \in ticked}
    IN [raised |-> ~(names \subseteq UserIntent),
        intents |-> IF names \subseteq UserIntent THEN names ELSE {}]

\* The phrase list the example session loads.
Phrases == <<"Bom dia", "Obrigado", "Por favor">>
\* A list of n phrases: the example's, repeated from the start when n is
\* larger.
PhraseList(n) == [k \in 1 .. n |-> Phrases[((k - 1) % Len(Phrases)) + 1]]

\* The AppStates the host passes to the oracle: a valid one, one with two
\* violations (results without recording or score) and one whose index is
\* past the end of the phrase list.
HostAppStates ==
    {build_free_text_state,
     [build_free_text_state EXCEPT !.has_results = TRUE],
     [build_guided_list_state(PhraseList(1), 0) EXCEPT !.current_phrase_index = 1]}

\* The UserState the host builds for a transition: intents and an
\* expectation, the verdict not yet given.
HostUserStates ==
    {UserState({"WANT_ENTER_TEXT", "WANT_GO_NEXT"}, {"TEXT_INPUT_FREE"}, None)}

\* The modes the host initializes a session in.
HostModes == {"FREE_TEXT", "GUIDED_LIST"}

\* The notes the tester types.
Notes == {"phrase not bold"}

\* ---------------------------------------------------------- specification

Init ==
    /\ state_history = <<>>
    /\ current_state = NoneRef
    /\ heap = <<>>
    /\ ustore = <<>>
    /\ now = ClockStart
    /\ lastOp = Op("init", FALSE, FALSE, "", NoneRef)
    /\ result = <<>>
    /\ other = [state_history |-> <<>>, current_state |-> NoneRef]

\* The clock readings a call may see: time does not run backwards.
Readings == {t \in now .. now + 1 : t <= ClockStart + MaxTicks}

InitializeState(cap) ==
    /\ Len(state_history) < cap
    /\ \E mode \in HostModes : initialize_state(mode)

\* transition with a UserState object the host has just built.
TransitionFresh(cap, apps, users) ==
    /\ Len(state_history) < cap
    /\ \E a \in apps, u \in users, t \in Readings :
          transition(a, Len(ustore) + 1, Append(ustore, u), t)

\* transition with a UserState object an earlier entry already holds.
TransitionShared(cap, apps) ==
    /\ Len(state_history) < cap
    /\ \E a \in apps, o \in Entries, t \in Readings :
          transition(a, heap[o].user_state, ustore, t)

UserValidation ==
    \E matches \in BOOLEAN, notes \in Notes :
        /\ ~matches => Len(get_bugs) < MaxBugs
        /\ user_validation(matches, notes)

GetBugs ==
    /\ lastOp' = Op("get_bugs", FALSE, FALSE, "", NoneRef)
    /\ result' = get_bugs
    /\ UNCHANGED <<state_history, current_state, heap, ustore, now, other>>

SaveTestSession == \E io_ok \in BOOLEAN : save_test_session(io_ok)

\* A call of compute_port_matching on a snapshot of the history.
ComputePortMatching ==
    \E o \in Entries :
        /\ heap' = [heap EXCEPT ![o] = compute_port_matching(@, ustore[heap[o].user_state])]
        /\ lastOp' = Op("compute_port_matching", FALSE, FALSE, "", o)
        /\ result' = <<>>
        /\ UNCHANGED <<state_history, current_state, ustore, now, other>>

Next ==
    \/ InitializeState(MaxHistory)
    \/ TransitionFresh(MaxHistory, HostAppStates, HostUserStates)
    \/ TransitionShared(MaxHistory, HostAppStates)
    \/ UserValidation
    \/ GetBugs
    \/ SaveTestSession
    \/ ComputePortMatching

Spec == Init /\ [][Next]_vars

\* The same oracle with one more history entry: room for a session that is
\* initialized again after its first transitions.
NextLong ==
    \/ InitializeState(MaxHistory + 1)
    \/ TransitionFresh(MaxHistory + 1, HostAppStates, HostUserStates)
    \/ TransitionShared(MaxHistory + 1, HostAppStates)
    \/ UserValidation
    \/ GetBugs
    \/ SaveTestSession
    \/ ComputePortMatching

SpecLong == Init /\ [][NextLong]_vars

\* Port matching on its own: one transition whose intents and capabilities
\* range over all subsets of the first NIntents intents and NCaps
\* capabilities, every single intent and the full capability set, then
\* repeated calls of compute_port_matching and verdicts of the tester.
PortIntents == {UserIntentSeq[k] : k \in 1 .. NIntents}
PortCaps == {AppCapabilitySeq[k] : k \in 1 .. NCaps}
PortAppStates ==
    {[build_free_text_state EXCEPT !.active_capabilities = C] :
         C \in SUBSET PortCaps \cup {AppCapability}}
PortUserStates ==
    {UserState(I, {"TEXT_INPUT_FREE"}, None) :
         I \in SUBSET PortIntents \cup {{i} : i \in UserIntent}}

NextPorts ==
    \/ TransitionFresh(1, PortAppStates, PortUserStates)
    \/ ComputePortMatching
    \/ UserValidation

SpecPorts == Init /\ [][NextPorts]_vars

\* The UserStates of a tester session: the verdict not yet given, or set by
\* the Matched / Mismatched button before the transition.
UiUserStates ==
    {UserState({"WANT_ENTER_TEXT"}, {"TEXT_INPUT_FREE"}, verdict) :
         verdict \in {None, Some(TRUE), Some(FALSE)}}

\* A call of check_ui_consistency on a snapshot of the history; a call that
\* records a bug is explored while fewer than MaxBugs are on record.
CheckUiConsistency ==
    \E o \in Entries :
        LET checked == check_ui_consistency(heap[o], ustore[heap[o].user_state])
        IN /\ checked.self # heap[o] => Len(get_bugs) < MaxBugs
           /\ heap' = [heap EXCEPT ![o] = checked.self]
           /\ lastOp' = Op("check_ui_consistency", FALSE, FALSE, "", o)
           /\ result' = <<checked.ret>>
           /\ UNCHANGED <<state_history, current_state, ustore, now, other>>

\* The consistency check on its own: transitions with the three verdicts,
\* verdicts given through user_validation, and calls of check_ui_consistency.
NextUi ==
    \/ TransitionFresh(MaxHistory, HostAppStates, UiUserStates)
    \/ UserValidation
    \/ CheckUiConsistency

SpecUi == Init /\ [][NextUi]_vars

\* The host sessions the adapter reads: the phrase list missing or of any
\* length up to MaxPhrases, the index missing or from -1 to past the end,
\* the edit flag missing or set either way, last_result missing, empty, or
\* holding a similarity, a recognized text or both, and the two text inputs
\* missing or filled.
LastResults ==
    {None, Some(<<>>), Some([similarity |-> 0]), Some([recognized |-> "Bom dia"]),
     Some([similarity |-> 0, recognized |-> "Bom dia"])}
Sessions ==
    {SessionState(pl, idx, em, lr, free, edit) :
         pl \in {None} \cup {Some(PhraseList(n)) : n \in 0 .. MaxPhrases},
         idx \in {None} \cup {Some(i) : i \in -1 .. MaxPhrases},
         em \in {None, Some(FALSE), Some(TRUE)},
         lr \in LastResults,
         free \in {None, Some(""), Some("Bom dia")},
         edit \in {None, Some("Obrigado")}}

\* The first call of a run, extract_app_state_from_streamlit on a host
\* session, and check_invariants on the AppState it returns: result holds
\* the session, the AppState and the violations.
ExtractAppState(sessions) ==
    \E session \in sessions :
        LET app_state == extract_app_state_from_streamlit(session)
        IN /\ lastOp.op = "init"
           /\ lastOp' = Op("extract_app_state_from_streamlit",
                           check_invariants(app_state).raised, FALSE, "", NoneRef)
           /\ result' = <<session, app_state, check_invariants(app_state).violations>>
           /\ UNCHANGED <<state_history, current_state, heap, ustore, now, other>>

NextExtract == ExtractAppState(Sessions)

SpecExtract == Init /\ [][NextExtract]_vars

\* The host turns to the other CCSTestOracle instance of the process: the
\* calls that follow are made on it.
SwitchOracle ==
    /\ state_history' = other.state_history
    /\ current_state' = other.current_state
    /\ other' = [state_history |-> state_history, current_state |-> current_state]
    /\ UNCHANGED <<heap, ustore, now, lastOp, result>>

\* Two sessions of one process: each call is made on one of two
\* CCSTestOracle instances, with objects the host builds for that call and
\* AppStates on which transition returns; the two histories together hold
\* up to MaxHistory entries.
InitializeStateOfTwo ==
    /\ Len(heap) < MaxHistory
    /\ InitializeState(MaxHistory)

TransitionOfTwo ==
    /\ Len(heap) < MaxHistory
    /\ TransitionFresh(MaxHistory, {a \in HostAppStates : ~check_invariants(a).raised}, HostUserStates)

NextTwo ==
    \/ InitializeStateOfTwo
    \/ TransitionOfTwo
    \/ UserValidation
    \/ GetBugs
    \/ SwitchOracle

SpecTwo == Init /\ [][NextTwo]_vars

\* The host sessions at a click: quick practice with a typed text, the same
\* with a result that carries no score, a phrase list with the index on its
\* first phrase, and a phrase list with the index past its end.
ClickSessions ==
    {SessionState(None, None, None, None, Some("Bom dia"), None),
     SessionState(None, None, None, Some(<<>>), Some("Bom dia"), None),
     SessionState(Some(PhraseList(2)), Some(0), Some(FALSE), None, None, None),
     SessionState(Some(PhraseList(1)), Some(1), Some(FALSE), None, None, None)}

\* A click of Matched or Mismatched in the validation panel.
RenderValidationUi ==
    /\ Len(state_history) < MaxHistory
    /\ \E enabled \in BOOLEAN, session \in ClickSessions, matches \in BOOLEAN,
          notes \in Notes, t \in Readings :
          render_validation_ui(enabled, session, matches, notes, t)

\* The tester's panel: sessions that start with initialize_state or not,
\* and clicks of Matched and Mismatched.
NextClick ==
    \/ InitializeState(MaxHistory)
    \/ RenderValidationUi
    \/ GetBugs

SpecClick == Init /\ [][NextClick]_vars

\* The intent selector on its own: the first call of a run, with any
\* combination of ticked checkboxes; result holds the ticked checkboxes and
\* the set returned.
CreateUserIntentSelector ==
    \E ticked \in SUBSET DOMAIN selector_intents :
        /\ lastOp.op = "init"
        /\ lastOp' = Op("create_user_intent_selector",
                        create_user_intent_selector(ticked).raised, FALSE, "", NoneRef)
        /\ result' = <<ticked, create_user_intent_selector(ticked).intents>>
        /\ UNCHANGED <<state_history, current_state, heap, ustore, now, other>>

NextSelector == CreateUserIntentSelector

SpecSelector == Init /\ [][NextSelector]_vars

\* check_invariants on its own: one call on each AppState of InvAppStates,
\* which has every mode, every list length up to MaxPhrases, every index
\* from below -len to past the end, both flags, the displayed text absent,
\* empty or one of the phrases, and the score absent or present.
DisplayedTexts == {None, Some("")} \cup {Some(Phrases[k]) : k \in DOMAIN Phrases}
Scores == {None, Some(0)}
InvAppStates ==
    {[AppState(mode, PhraseList(n), i) EXCEPT
          !.has_recording = rec, !.has_results = res,
          !.displayed_phrase_text = d, !.current_score = sc] :
         mode \in PracticeMode, n \in 0 .. MaxPhrases,
         i \in -(MaxPhrases + 1) .. MaxPhrases,
         rec \in BOOLEAN, res \in BOOLEAN, d \in DisplayedTexts, sc \in Scores}

\* The first call of a run, app_state.check_invariants(): result holds the
\* AppState and the list returned.
CheckInvariants(apps) ==
    \E a \in apps :
        /\ lastOp.op = "init"
        /\ lastOp' = Op("check_invariants", check_invariants(a).raised, FALSE, "", NoneRef)
        /\ result' = <<a, check_invariants(a).violations>>
        /\ UNCHANGED <<state_history, current_state, heap, ustore, now, other>>

NextInv == CheckInvariants(InvAppStates)

SpecInv == Init /\ [][NextInv]_vars

\* ------------------------------------------------------------------ claims

IsPrefix(s, t) == Len(s) <= Len(t) /\ SubSeq(t, 1, Len(s)) = s

\* The snapshot a history position holds.
Entry(k) == heap[state_history[k]]
\* The UserState object a snapshot refers to.
UserOf(o) == ustore[heap[o].user_state]

\* C1: the test_step values of the history entries are strictly increasing
\* in history order, after any sequence of initialize_state, transition and
\* user_validation calls.
C1_StepsStrictlyIncreasing ==
    \A i, j \in DOMAIN state_history :
        i < j => Entry(i).test_step < Entry(j).test_step

\* C2: the history is append-only.  Every call leaves the entries it found
\* as a prefix of the history, in the same order and with the same step,
\* AppState and UserState object; only initialize_state and transition
\* lengthen it, and a call of either that returns lengthens it by exactly
\* one entry.
C2_HistoryAppendOnly ==
    [][/\ IsPrefix(state_history, state_history')
       /\ Len(state_history') \in {Len(state_history), Len(state_history) + 1}
       /\ Len(state_history') > Len(state_history)
              => lastOp'.op \in {"initialize_state", "transition"}
       /\ (lastOp'.op \in {"initialize_state", "transition"} /\ ~lastOp'.raised)
              => Len(state_history') = Len(state_history) + 1
       /\ \A o \in Entries :
              /\ heap'[o].test_step = heap[o].test_step
              /\ heap'[o].app_state = heap[o].app_state
              /\ heap'[o].user_state = heap[o].user_state]_vars

\* C2's case: a history of two entries on which a later operation has run.
C2_Witness ==
    /\ Len(state_history) >= 2
    /\ lastOp.op \in {"user_validation", "get_bugs", "save_test_session"}

\* C3: bug records are never lost, changed or reordered: for every
\* operation, get_bugs() before it is a prefix of get_bugs() after it.
C3_BugsNeverLost == [][IsPrefix(get_bugs, get_bugs')]_vars

\* C3's case: two bugs are on record and a later user_validation with
\* matches=True has run.
C3_Witness ==
    /\ lastOp.op = "user_validation"
    /\ lastOp.matches
    /\ Len(get_bugs) >= 2

\* C4: a structurally invalid AppState never causes a fatal error:
\* transition runs to completion for every AppState, and an AppState that
\* breaks an invariant gets an automatic bug at that transition.
C4_InvalidStateNeverFatal ==
    lastOp.op = "transition" =>
        /\ ~lastOp.raised
        /\ check_invariants(heap[lastOp.target].app_state).violations # <<>>
               => \E k \in DOMAIN heap[lastOp.target].bugs_found :
                      heap[lastOp.target].bugs_found[k].type = "INVARIANT_VIOLATION"

\* What an entry shows: verdict, note, AppState, port-matching sets, step
\* number and bug list.
EntryView(o) ==
    [perception_matches |-> UserOf(o).perception_matches,
     perception_notes |-> UserOf(o).perception_notes,
     app_state |-> heap[o].app_state,
     satisfied_interactions |-> heap[o].satisfied_interactions,
     unsatisfied_user_intents |-> heap[o].unsatisfied_user_intents,
     unused_app_capabilities |-> heap[o].unused_app_capabilities,
     test_step |-> heap[o].test_step,
     bugs_found |-> heap[o].bugs_found]

\* C5: user_validation mutates only the most recent history entry: the
\* verdict, note, AppState, port-matching sets, step number and bug list of
\* every other entry are unchanged, whatever UserState objects the host
\* passed to the transitions.
C5_ValidationTouchesOnlyLast ==
    [][lastOp'.op = "user_validation"
          => \A k \in 1 .. Len(state_history) - 1 :
                 EntryView(state_history[k])' = EntryView(state_history[k])]_vars

\* C6: on an oracle with a history entry, user_validation(matches=False,
\* note) makes get_bugs() grow by exactly one UI_INCONSISTENCY bug carrying
\* the note, the step number of the most recent entry and that entry's
\* expected-visible and actual-visible sets; with matches=True get_bugs()
\* does not change.
C6_MismatchRecordsOneBug ==
    [][(lastOp'.op = "user_validation" /\ state_history # <<>>)
          => LET last == state_history[Len(state_history)]
             IN IF lastOp'.matches
                THEN get_bugs' = get_bugs
                ELSE get_bugs' =
                         Append(get_bugs,
                                [step |-> heap[last].test_step,
                                 type |-> "UI_INCONSISTENCY",
                                 expected_visible |-> UserOf(last).expected_visible,
                                 actual_visible |-> heap[last].app_state.visible_elements,
                                 notes |-> lastOp'.notes])]_vars

\* C6's case: a mismatch verdict has just been given on a transition's
\* entry and the bug list ends with the tester's bug.
C6_Witness ==
    /\ lastOp.op = "user_validation"
    /\ ~lastOp.matches
    /\ state_history # <<>>
    /\ heap[lastOp.target].app_state.visible_elements # {}
    /\ get_bugs # <<>>
    /\ get_bugs[Len(get_bugs)].type = "UI_INCONSISTENCY"
    /\ get_bugs[Len(get_bugs)].notes = lastOp.notes

\* The bugs of one kind an entry holds.
BugsOfType(o, type) ==
    Cardinality({k \in DOMAIN heap[o].bugs_found : heap[o].bugs_found[k].type = type})

RECURSIVE SumOver(_, _)
SumOver(history, type) ==
    IF history = <<>>
    THEN 0
    ELSE BugsOfType(Head(history), type) + SumOver(Tail(history), type)

\* C7: get_bugs() returns the bugs in non-decreasing step order, and its
\* length is the sum over the history entries of their INVARIANT_VIOLATION
\* and UI_INCONSISTENCY bugs.
C7_BugsInStepOrder ==
    /\ \A i, j \in DOMAIN get_bugs : i < j => get_bugs[i].step <= get_bugs[j].step
    /\ Len(get_bugs) = SumOver(state_history, "INVARIANT_VIOLATION")
                           + SumOver(state_history, "UI_INCONSISTENCY")

\* C8: a transition that returns records the automatic bug (kind
\* INVARIANT_VIOLATION, the new entry's step, every violation) exactly when
\* check_invariants() of the new AppState is non-empty, and no
\* UI_INCONSISTENCY bug; and in every bug on record the kind tells the two
\* shapes apart.
C8_AutomaticBugIffViolations ==
    /\ (lastOp.op = "transition" /\ ~lastOp.raised) =>
           LET e == heap[lastOp.target]
               violations == check_invariants(e.app_state).violations
           IN /\ e.test_step = Len(state_history) - 1
              /\ e.bugs_found =
                     IF violations # <<>>
                     THEN <<[step |-> e.test_step,
                             type |-> "INVARIANT_VIOLATION",
                             violations |-> violations,
                             notes |-> "Automated invariant check"]>>
                     ELSE <<>>
    /\ \A k \in DOMAIN get_bugs :
           /\ get_bugs[k].type \in {"INVARIANT_VIOLATION", "UI_INCONSISTENCY"}
           /\ get_bugs[k].type = "INVARIANT_VIOLATION"
                  <=> "violations" \in DOMAIN get_bugs[k]
           /\ get_bugs[k].type = "UI_INCONSISTENCY"
                  <=> "expected_visible" \in DOMAIN get_bugs[k]

\* C8's case: a transition has just recorded its automatic bug for an
\* AppState with two violations, with a UserState whose verdict already
\* says mismatch.
C8_Witness ==
    /\ lastOp.op = "transition"
    /\ ~lastOp.raised
    /\ Len(check_invariants(heap[lastOp.target].app_state).violations) = 2
    /\ UserOf(lastOp.target).perception_matches = Some(FALSE)

\* C9: compute_port_matching yields satisfied = {(i, partner(i)) : i in I,
\* partner(i) in C}, unsatisfied = {i in I : partner(i) not in C} and
\* unused = C minus the capabilities of the satisfied pairs, for the active
\* intents I and active capabilities C of the snapshot; I = {WANT_ENTER_TEXT}
\* and C = {ACCEPT_TEXT_INPUT} give one pair and two empty sets.
C9_PortMatching ==
    \A o \in Entries :
        LET I == UserOf(o).active_intents
            C == heap[o].app_state.active_capabilities
            satisfied == {<<i, port_pairs[i]>> : i \in {x \in I : port_pairs[x] \in C}}
        IN /\ heap[o].satisfied_interactions = satisfied
           /\ heap[o].unsatisfied_user_intents = {i \in I : port_pairs[i] \notin C}
           /\ heap[o].unused_app_capabilities = C \ {p[2] : p \in satisfied}
           /\ (I = {"WANT_ENTER_TEXT"} /\ C = {"ACCEPT_TEXT_INPUT"})
                  => /\ heap[o].satisfied_interactions =
                            {<<"WANT_ENTER_TEXT", "ACCEPT_TEXT_INPUT">>}
                     /\ heap[o].unsatisfied_user_intents = {}
                     /\ heap[o].unused_app_capabilities = {}

\* C9's case: a transition has matched ports with a satisfied pair, an
\* unsatisfied intent and an unused capability.
C9_Witness ==
    /\ lastOp.op = "transition"
    /\ ~lastOp.raised
    /\ heap[lastOp.target].satisfied_interactions # {}
    /\ heap[lastOp.target].unsatisfied_user_intents # {}
    /\ heap[lastOp.target].unused_app_capabilities # {}

\* C10: compute_port_matching is idempotent: called again on a snapshot,
\* it leaves the three sets as the earlier call made them and changes
\* nothing else of the snapshot or the oracle.
C10_PortMatchingIdempotent ==
    [][lastOp'.op = "compute_port_matching"
          => /\ heap' = heap
             /\ ustore' = ustore
             /\ state_history' = state_history
             /\ current_state' = current_state]_vars

\* C10's case: compute_port_matching has been called again on a snapshot
\* that has a satisfied pair and an unused capability.
C10_Witness ==
    /\ lastOp.op = "compute_port_matching"
    /\ heap[lastOp.target].satisfied_interactions # {}
    /\ heap[lastOp.target].unused_app_capabilities # {}

\* C11: the port table is total and fixed: its domain is the whole UserIntent
\* enumeration and it maps each intent to one AppCapability, so an intent is
\* reported unsatisfied only because its partner capability is not active,
\* never because it has no partner.
C11_PortTableTotal ==
    /\ DOMAIN port_pairs = UserIntent
    /\ \A i \in UserIntent : port_pairs[i] \in AppCapability
    /\ \A o \in Entries :
           \A i \in heap[o].unsatisfied_user_intents :
               /\ port_pairs_get(i) # None
               /\ port_pairs_get(i)[1] \notin heap[o].app_state.active_capabilities

\* C11's case: a transition has matched ports for the last intent of the
\* enumeration and reported it unsatisfied.
C11_Witness ==
    /\ lastOp.op = "transition"
    /\ ~lastOp.raised
    /\ heap[lastOp.target].unsatisfied_user_intents = {"WANT_HEAR_PHONEME_USER"}

\* The violation messages of the five invariants.
MsgNoRecording == {"Results exist but no recording (impossible state)"}
MsgEmptyList == {"GUIDED_LIST mode but empty phrase list"}
MsgOutOfBounds == {"Negative phrase index", "Phrase index out of bounds"}
MsgNoScore == {"Results exist but no score available"}
MsgMismatch == {"Displayed phrase doesn't match list phrase"}

HasViolation(violations, msgs) ==
    \E k \in DOMAIN violations : violations[k].msg \in msgs

\* The index of an AppState is a position of its phrase list.
InBounds(a) == 0 <= a.current_phrase_index /\ a.current_phrase_index < Len(a.phrase_list)

\* The displayed text is present (not None, not empty) and is not the phrase
\* at the index.
DisplayedDiffers(a) ==
    /\ a.displayed_phrase_text \notin {None, Some("")}
    /\ a.displayed_phrase_text[1] # a.phrase_list[a.current_phrase_index + 1]

\* C12: check_invariants enumerates all violations in one pass: for every
\* AppState it returns a list that has a violation for each of the five
\* invariants the state breaks and none for an invariant the state
\* satisfies.
C12_AllViolationsEnumerated ==
    lastOp.op = "check_invariants" =>
        LET a == result[1]
            v == result[2]
        IN /\ ~lastOp.raised
           /\ HasViolation(v, MsgNoRecording) <=> (a.has_results /\ ~a.has_recording)
           /\ HasViolation(v, MsgEmptyList)
                  <=> (a.mode = "GUIDED_LIST" /\ a.phrase_list = <<>>)
           /\ HasViolation(v, MsgOutOfBounds) <=> (a.phrase_list # <<>> /\ ~InBounds(a))
           /\ HasViolation(v, MsgNoScore) <=> (a.has_results /\ a.current_score = None)
           /\ InBounds(a) =>
                  (HasViolation(v, MsgMismatch)
                       <=> (a.mode = "GUIDED_LIST" /\ DisplayedDiffers(a)))

\* C13: for every AppState, in every mode, whose index lies outside
\* [0, len(phrase_list)) of its non-empty phrase list, check_invariants
\* produces an out-of-bounds violation; for every AppState whose index lies
\* inside, it produces none.
C13_OutOfBoundsReported ==
    (lastOp.op = "check_invariants" /\ result[1].phrase_list # <<>>) =>
        IF InBounds(result[1])
        THEN ~HasViolation(result[2], MsgOutOfBounds)
        ELSE ~lastOp.raised /\ HasViolation(result[2], MsgOutOfBounds)

\* C14: for every AppState in GUIDED_LIST mode with an empty phrase list,
\* check_invariants returns a list that has the empty-list violation; for
\* every AppState with a non-empty list, and for every AppState in FREE_TEXT
\* or GUIDED_EDIT mode, that violation is not reported.
C14_EmptyGuidedListReported ==
    lastOp.op = "check_invariants" =>
        IF result[1].mode = "GUIDED_LIST" /\ result[1].phrase_list = <<>>
        THEN ~lastOp.raised /\ HasViolation(result[2], MsgEmptyList)
        ELSE ~HasViolation(result[2], MsgEmptyList)

\* C14's case: check_invariants has returned the empty-list violation next
\* to two others for a GUIDED_LIST AppState without phrases.
C14_Witness ==
    /\ lastOp.op = "check_invariants"
    /\ result[1].mode = "GUIDED_LIST"
    /\ result[1].phrase_list = <<>>
    /\ HasViolation(result[2], MsgEmptyList)
    /\ Len(result[2]) = 3

\* C15: for every AppState in GUIDED_LIST mode with a non-empty phrase list
\* and an in-bounds index, check_invariants reports the mismatch violation
\* exactly when the displayed text is present (not None, not empty) and
\* differs from phrase_list[index]; when that is the only broken invariant
\* the list returned has exactly one violation.
C15_MismatchIffDisplayedDiffers ==
    (lastOp.op = "check_invariants" /\ result[1].mode = "GUIDED_LIST"
         /\ result[1].phrase_list # <<>> /\ InBounds(result[1])) =>
        LET a == result[1]
            v == result[2]
        IN /\ ~lastOp.raised
           /\ HasViolation(v, MsgMismatch) <=> DisplayedDiffers(a)
           /\ (DisplayedDiffers(a) /\ ~(a.has_results /\ ~a.has_recording)
                   /\ ~(a.has_results /\ a.current_score = None))
                  => /\ Len(v) = 1
                     /\ v[1].msg \in MsgMismatch
                     /\ v[1].displayed = a.displayed_phrase_text[1]
                     /\ v[1].expected = a.phrase_list[a.current_phrase_index + 1]

\* C15's case: three phrases, index 0 and the second phrase displayed give
\* the mismatch as the only violation.
C15_Witness ==
    /\ lastOp.op = "check_invariants"
    /\ result[1].mode = "GUIDED_LIST"
    /\ result[1].phrase_list = Phrases
    /\ result[1].current_phrase_index = 0
    /\ result[1].displayed_phrase_text = Some(Phrases[2])
    /\ Len(result[2]) = 1
    /\ HasViolation(result[2], MsgMismatch)

\* C16: a pending verdict is never conflated with a mismatch:
\* check_ui_consistency on a snapshot whose verdict is unknown records no
\* bug, and what it returns differs from what it returns for the same
\* snapshot with a mismatch verdict.
C16_PendingNotMismatch ==
    [][(lastOp'.op = "check_ui_consistency"
            /\ UserOf(lastOp'.target).perception_matches = None)
          => /\ heap' = heap
             /\ result'[1] #
                    check_ui_consistency(
                        heap[lastOp'.target],
                        [UserOf(lastOp'.target) EXCEPT
                             !.perception_matches = Some(FALSE)]).ret]_vars

\* C17: the verdict of a step is set once: along any sequence of operations
\* the verdict of a history entry, once given, does not change again, and
\* no entry accumulates more than one UI_INCONSISTENCY bug (a repeated
\* user_validation on the same step records no second bug).
C17_VerdictSetOnce ==
    /\ [](\A o \in Entries : BugsOfType(o, "UI_INCONSISTENCY") <= 1)
    /\ [][\A o \in Entries :
              UserOf(o).perception_matches # None
                  => UserOf(o)'.perception_matches = UserOf(o).perception_matches]_vars

\* C18: serialization is recoverable: whether save_test_session succeeds or
\* fails, state_history, current_state and every bug list are as before the
\* call, so get_bugs() and the document of a retried save are the same; a
\* failed call raises to the caller and returns no document.
C18_SaveLeavesSessionIntact ==
    [][lastOp'.op = "save_test_session"
          => /\ state_history' = state_history
             /\ current_state' = current_state
             /\ heap' = heap
             /\ ustore' = ustore
             /\ get_bugs' = get_bugs
             /\ session_data' = session_data
             /\ lastOp'.raised <=> result' = <<>>
             /\ ~lastOp'.raised => result' = <<session_data.data>>]_vars

\* C18's case: a save has failed on a session with two entries and a bug on
\* record.
C18_Witness ==
    /\ lastOp.op = "save_test_session"
    /\ lastOp.raised
    /\ Len(state_history) >= 2
    /\ get_bugs # <<>>

\* C19: the persisted document is faithful to the session: its total step
\* count is the number of history entries, its bug list is get_bugs() in the
\* same order, and its snapshot list has one snapshot per history entry in
\* history order, each with that entry's step number and three
\* port-matching sets.
C19_DocumentFaithful ==
    (lastOp.op = "save_test_session" /\ ~lastOp.raised) =>
        LET doc == result[1]
        IN /\ doc.total_steps = Len(state_history)
           /\ doc.bugs_found = get_bugs
           /\ Len(doc.state_history) = Len(state_history)
           /\ \A k \in DOMAIN state_history :
                  /\ doc.state_history[k].test_step = Entry(k).test_step
                  /\ doc.state_history[k].satisfied_interactions
                         = Entry(k).satisfied_interactions
                  /\ doc.state_history[k].unsatisfied_user_intents
                         = Entry(k).unsatisfied_user_intents
                  /\ doc.state_history[k].unused_app_capabilities
                         = Entry(k).unused_app_capabilities

\* C19's case: a session of two entries with a bug and a satisfied port
\* pair has been saved.
C19_Witness ==
    /\ lastOp.op = "save_test_session"
    /\ ~lastOp.raised
    /\ Len(state_history) >= 2
    /\ get_bugs # <<>>
    /\ \E k \in DOMAIN state_history : Entry(k).satisfied_interactions # {}
    /\ Entry(1).test_step # Entry(2).test_step

\* C20: for every host session (any phrase_list, any current_phrase_index,
\* any edit_mode flag, last_result absent or present with or without a
\* similarity value) the AppState extract_app_state_from_streamlit produces
\* satisfies all AppState invariants: check_invariants() on it returns an
\* empty list without error.
C20_ExtractedStateValid ==
    lastOp.op = "extract_app_state_from_streamlit" =>
        /\ ~lastOp.raised
        /\ result[3] = <<>>

\* What a CCSTestOracle instance with history h shows: its entries in order
\* and its bug list.
OracleView(h) ==
    [entries |-> [k \in DOMAIN h |-> EntryView(h[k])],
     bugs |-> collect_bugs(h, heap)]

\* C21: sessions are independent: with two CCSTestOracle instances and any
\* interleaving of initialize_state, transition, user_validation and
\* get_bugs calls on them, a call on one instance leaves the history, the
\* current state, every entry and the bug list of the other as they were,
\* and the step a transition assigns is the length of its own instance's
\* history.
C21_SessionsIndependent ==
    [][IF other' = other
       THEN /\ OracleView(other.state_history)' = OracleView(other.state_history)
            /\ (lastOp'.op = "transition" /\ ~lastOp'.raised
                    /\ Len(state_history') > Len(state_history))
                   => heap'[lastOp'.target].test_step = Len(state_history)
       ELSE /\ OracleView(other.state_history)' = OracleView(state_history)
            /\ OracleView(state_history)' = OracleView(other.state_history)]_vars

\* C21's case: both instances hold an entry, the one not being called has a
\* bug on record, and a mismatch verdict has just been given on the other.
C21_Witness ==
    /\ state_history # <<>>
    /\ other.state_history # <<>>
    /\ collect_bugs(other.state_history, heap) # <<>>
    /\ lastOp.op = "user_validation"
    /\ ~lastOp.matches
    /\ lastOp.target = current_state
    /\ get_bugs # <<>>

\* C22: the step number transition assigns is the history length just
\* before the call, whatever the clock reads: on a fresh oracle two
\* consecutive transitions with equal timestamps (zero elapsed time) get the
\* step numbers 0 and 1.
C22_StepIsHistoryLength ==
    /\ (lastOp.op = "transition" /\ ~lastOp.raised)
           => heap[lastOp.target].test_step = Len(state_history) - 1
    /\ (Len(state_history) >= 2
            /\ Entry(1).timestamp >= ClockStart
            /\ Entry(2).timestamp = Entry(1).timestamp)
           => /\ Entry(1).test_step = 0
              /\ Entry(2).test_step = 1

\* C22's case: the second of two transitions on a fresh oracle has run at
\* the clock reading of the first.
C22_Witness ==
    /\ lastOp.op = "transition"
    /\ ~lastOp.raised
    /\ Len(state_history) = 2
    /\ lastOp.target = state_history[2]
    /\ Entry(1).timestamp >= ClockStart
    /\ Entry(2).timestamp = Entry(1).timestamp
    /\ Entry(2).time_since_last_transition = 0
    /\ Entry(2).test_step = 1

\* C23: every intent create_user_intent_selector can add, for any
\* combination of ticked checkboxes ("Hear target" included), is a member of
\* UserIntent with a partner in the port table: the selector returns a
\* valid intent set and never fails.
C23_SelectorIntentsValid ==
    lastOp.op = "create_user_intent_selector" =>
        /\ ~lastOp.raised
        /\ result[2] \subseteq UserIntent
        /\ \A i \in result[2] : port_pairs_get(i) # None

\* C24: transition sets the new entry's elapsed time to zero when the oracle
\* has no prior entry, and otherwise to the new timestamp minus the prior
\* entry's timestamp, which is the real time between the two entries (no
\* more than the time since the clock's first reading), also when the prior
\* entry was created by initialize_state.
C24_ElapsedSincePriorEntry ==
    (lastOp.op = "transition" /\ ~lastOp.raised) =>
        LET e == heap[lastOp.target]
        IN IF Len(state_history) = 1
           THEN e.time_since_last_transition = 0
           ELSE /\ e.time_since_last_transition
                       = e.timestamp - Entry(Len(state_history) - 1).timestamp
                /\ e.time_since_last_transition <= e.timestamp - ClockStart

\* C25: with testing enabled, one click of Matched or Mismatched appends
\* exactly one history entry; a Mismatched click records exactly one
\* UI_INCONSISTENCY bug, at the new entry's step and with the typed notes,
\* and a Matched click records none.
C25_ClickRecordsOneEntry ==
    [][(lastOp'.op = "render_validation_ui" /\ result' = <<TRUE>>)
          => /\ ~lastOp'.raised
             /\ state_history' = Append(state_history, lastOp'.target)
             /\ lastOp'.target \notin Entries
             /\ LET e == heap'[lastOp'.target]
                    ui == SelectSeq(e.bugs_found, LAMBDA b : b.type = "UI_INCONSISTENCY")
                IN /\ get_bugs' = get_bugs \o e.bugs_found
                   /\ IF lastOp'.matches
                      THEN ui = <<>>
                      ELSE /\ Len(ui) = 1
                           /\ ui[1].step = e.test_step
                           /\ ui[1].notes = lastOp'.notes]_vars

\* C26: for every history entry, created by initialize_state or by
\* transition, the invariant-violation list written for its step in the
\* persisted document is non-empty exactly when the entry's bug list has an
\* INVARIANT_VIOLATION bug, and that bug lists the same violations.
C26_DocumentViolationsMatchBugs ==
    (lastOp.op = "save_test_session" /\ ~lastOp.raised) =>
        \A k \in DOMAIN state_history :
            LET written == result[1].state_history[k].invariant_violations
                automatic == SelectSeq(Entry(k).bugs_found,
                                       LAMBDA b : b.type = "INVARIANT_VIOLATION")
            IN /\ written # <<>> <=> automatic # <<>>
               /\ \A j \in DOMAIN automatic : automatic[j].violations = written

\* C27: in every history entry created by transition, also after a later
\* user_validation, the port-matching sets partition their inputs: the
\* intents of the satisfied pairs and the unsatisfied intents are disjoint
\* and together are the entry's active intents; the capabilities of the
\* satisfied pairs and the unused capabilities are disjoint and together
\* are the entry's active capabilities; and no capability is in more than
\* one satisfied pair.
C27_PortSetsPartition ==
    \A o \in Entries :
        LET satisfied == heap[o].satisfied_interactions
            intents == {p[1] : p \in satisfied}
            capabilities == {p[2] : p \in satisfied}
        IN /\ intents \cap heap[o].unsatisfied_user_intents = {}
           /\ intents \cup heap[o].unsatisfied_user_intents = UserOf(o).active_intents
           /\ capabilities \cap heap[o].unused_app_capabilities = {}
           /\ capabilities \cup heap[o].unused_app_capabilities
                  = heap[o].app_state.active_capabilities
           /\ \A p, q \in satisfied : p[2] = q[2] => p = q

\* C27's case: a verdict has been given on a transition's entry that has
\* two satisfied pairs, an unsatisfied intent and an unused capability.
C27_Witness ==
    /\ lastOp.op = "user_validation"
    /\ lastOp.target # NoneRef
    /\ Cardinality(heap[lastOp.target].satisfied_interactions) >= 2
    /\ heap[lastOp.target].unsatisfied_user_intents # {}
    /\ heap[lastOp.target].unused_app_capabilities # {}

\* C28: in every reachable oracle state current_state is absent exactly when
\* state_history is empty, and otherwise it is the last entry of
\* state_history, so user_validation targets the most recently appended
\* entry.
C28_CurrentIsLastEntry ==
    /\ current_state = NoneRef <=> state_history = <<>>
    /\ state_history # <<>> => current_state = state_history[Len(state_history)]
    /\ lastOp.op = "user_validation" => lastOp.target = current_state

\* C28's case: a verdict has been given on an oracle with two entries, the
\* second one being the current state.
C28_Witness ==
    /\ lastOp.op = "user_validation"
    /\ Len(state_history) = 2
    /\ lastOp.target = state_history[2]
    /\ UserOf(state_history[2]).perception_matches # None
    /\ UserOf(state_history[1]).perception_matches = None

\* C29: user_validation on an oracle with no history entry is a no-op: it
\* raises no error, the history and get_bugs() stay empty and no object
\* changes, and the verdict passed is not carried over to the entry
\* appended next.
C29_ValidationOnEmptyOracle ==
    [][/\ (lastOp'.op = "user_validation" /\ state_history = <<>>)
              => /\ ~lastOp'.raised
                 /\ state_history' = <<>>
                 /\ current_state' = NoneRef
                 /\ get_bugs' = <<>>
                 /\ heap' = heap
                 /\ ustore' = ustore
       /\ (lastOp.op = "user_validation" /\ lastOp.target = NoneRef
               /\ Len(state_history') > Len(state_history))
              => /\ ustore'[heap'[lastOp'.target].user_state].perception_matches = None
                 /\ ustore'[heap'[lastOp'.target].user_state].perception_notes = ""
                 /\ get_bugs' = heap'[lastOp'.target].bugs_found
                 /\ \A k \in DOMAIN get_bugs' : get_bugs'[k].type # "UI_INCONSISTENCY"]_vars

\* C29's case: a mismatch verdict with a note has just been given on an
\* oracle without history.
C29_Witness ==
    /\ lastOp.op = "user_validation"
    /\ ~lastOp.matches
    /\ lastOp.notes # ""
    /\ lastOp.target = NoneRef
    /\ state_history = <<>>
    /\ get_bugs = <<>>

\* C30: in GUIDED_LIST mode with a non-empty phrase list and an in-bounds
\* index, an AppState whose displayed text is missing (None) or empty never
\* yields the displayed-text mismatch violation: check_invariants returns,
\* and treats the absent displayed text as not checked.
C30_AbsentDisplayedNotChecked ==
    (lastOp.op = "check_invariants" /\ result[1].mode = "GUIDED_LIST"
         /\ result[1].phrase_list # <<>> /\ InBounds(result[1])
         /\ result[1].displayed_phrase_text \in {None, Some("")}) =>
        /\ ~lastOp.raised
        /\ ~HasViolation(result[2], MsgMismatch)

\* C30's case: check_invariants has returned no violation at all for a
\* GUIDED_LIST AppState with three phrases, index 1 and an empty displayed
\* text.
C30_Witness ==
    /\ lastOp.op = "check_invariants"
    /\ result[1].mode = "GUIDED_LIST"
    /\ result[1].phrase_list = Phrases
    /\ result[1].current_phrase_index = 1
    /\ result[1].displayed_phrase_text = Some("")
    /\ result[2] = <<>>

====
